---- MODULE Spec2Model ----
(***************************************************************************)
(* Model of streamlit_app.py: the job-board aggregation pipeline           *)
(* (fetch -> merge -> dedupe -> filter), the board URL parser, the result  *)
(* sort and the script rerun that keeps session_state.last_jobs.           *)
(*                                                                         *)
(* Representation of Python values.                                        *)
(*   str            a sequence of one-character strings                    *)
(*   None (as str)  the one-element sequence <<"None">>; "None" is not a   *)
(*                  character, so it is different from every str           *)
(*   dict           a record; a key the dict lacks is outside its DOMAIN   *)
(*   list           a sequence                                             *)
(*   Optional[int]  <<>> for None, <<n>> for the integer n                 *)
(*   date strings   see the section "Dates"                                *)
(***************************************************************************)
EXTENDS Integers, Sequences, FiniteSets, TLC

VARIABLES
    widgets,     \* values of the sidebar widgets and of the sort selectbox
    session,     \* st.session_state
    cache,       \* the st.cache_data store of the three fetchers
    clock,       \* seconds since the epoch (datetime.utcnow())
    run,         \* what the latest script run did
    call         \* latest direct call of a helper: function, argument, result

vars == <<widgets, session, cache, clock, run, call>>

-----------------------------------------------------------------------------
(* Strings *)

None == <<"None">>
EmptyStr == <<>>

Truthy(s) == s # None /\ s # EmptyStr

\* x or y, for str-or-None operands
Or(x, y) == IF Truthy(x) THEN x ELSE y

\* d.get(k, default)
Get(d, k, default) == IF k \in DOMAIN d THEN d[k] ELSE default

IsSpace(c) == c \in {" ", "\t"}

LowerChar(c) ==
    CASE c = "A" -> "a"
      [] c = "E" -> "e"
      [] c = "I" -> "i"
      [] c = "J" -> "j"
      [] c = "L" -> "l"
      [] c = "Q" -> "q"
      [] c = "R" -> "r"
      [] c = "S" -> "s"
      [] c = "V" -> "v"
      [] OTHER -> c

lower(s) == [i \in 1..Len(s) |-> LowerChar(s[i])]

\* re.sub(r"\s+", " ", s): every maximal run of whitespace becomes one blank
RECURSIVE CollapseFrom(_, _)
CollapseFrom(s, i) ==
    IF i > Len(s) THEN <<>>
    ELSE IF ~IsSpace(s[i]) THEN <<s[i]>> \o CollapseFrom(s, i + 1)
    ELSE IF i > 1 /\ IsSpace(s[i - 1]) THEN CollapseFrom(s, i + 1)
    ELSE <<" ">> \o CollapseFrom(s, i + 1)

collapse(s) == CollapseFrom(s, 1)

\* str.strip()
RECURSIVE lstrip(_)
lstrip(s) == IF s # <<>> /\ IsSpace(Head(s)) THEN lstrip(Tail(s)) ELSE s

RECURSIVE rstrip(_)
rstrip(s) ==
    IF s # <<>> /\ IsSpace(s[Len(s)]) THEN rstrip(SubSeq(s, 1, Len(s) - 1)) ELSE s

strip(s) == rstrip(lstrip(s))

normalize_text(s) == lower(strip(collapse(Or(s, EmptyStr))))

\* sub in s
Contains(sub, s) ==
    \E i \in 0..(Len(s) - Len(sub)) : SubSeq(s, i + 1, i + Len(sub)) = sub

\* sep.join(parts)
RECURSIVE join(_, _)
join(sep, parts) ==
    IF parts = <<>> THEN <<>>
    ELSE IF Len(parts) = 1 THEN parts[1]
    ELSE parts[1] \o sep \o join(sep, Tail(parts))

\* s[:n]
Prefix(s, n) == SubSeq(s, 1, IF Len(s) < n THEN Len(s) ELSE n)

-----------------------------------------------------------------------------
(* Deduplication *)

\* the key built from the raw title and company
DedupeKey_Raw(j) ==
    <<Get(j, "title", EmptyStr), Get(j, "company", EmptyStr), Get(j, "url", EmptyStr)>>

DedupeKey(j) ==
    <<normalize_text(Get(j, "title", EmptyStr)),
      normalize_text(Get(j, "company", EmptyStr)),
      Get(j, "url", EmptyStr)>>

RECURSIVE DedupeLoop(_, _, _, _)
DedupeLoop(jobs, i, seen, out) ==
    IF i > Len(jobs) THEN out
    ELSE IF DedupeKey(jobs[i]) \notin seen
         THEN DedupeLoop(jobs, i + 1, seen \cup {DedupeKey(jobs[i])},
                         Append(out, jobs[i]))
         ELSE DedupeLoop(jobs, i + 1, seen, out)

dedupe_jobs(jobs) == DedupeLoop(jobs, 1, {}, <<>>)

-----------------------------------------------------------------------------
(* Dates.  A date string is a record: [fmt |-> "iso", s, ms, tz] is the     *)
(* ISO-8601 text of the instant s seconds and ms milliseconds after the    *)
(* epoch, followed by the offset text tz ("" for none); [fmt |-> "text"]   *)
(* is a non-empty text that is no ISO-8601 date ("3 days ago");            *)
(* [fmt |-> "empty"] is ""; [fmt |-> "None"] is None.  A millisecond count *)
(* too wide for one integer is written [s, ms], meaning 1000*s + ms.       *)

NoDate == [fmt |-> "None"]
EmptyDate == [fmt |-> "empty"]
FreeText == [fmt |-> "text"]
Iso(s, ms, tz) == [fmt |-> "iso", s |-> s, ms |-> ms, tz |-> tz]

DateTruthy(d) == d.fmt \notin {"None", "empty"}

DateOr(x, y) == IF DateTruthy(x) THEN x ELSE y

SecondsPerDay == 86400

\* date_str.replace("Z","").replace("+00:00","")
StripUtc(d) == IF d.fmt = "iso" /\ d.tz \in {"Z", "+00:00"} THEN [d EXCEPT !.tz = ""] ELSE d

\* datetime.fromisoformat accepts the text
IsoParses(d) == d.fmt = "iso"

\* (datetime.utcnow() - dt).days for a naive dt; utcnow() is `now` seconds
DeltaDays(now, d) == (now - d.s - (IF d.ms > 0 THEN 1 ELSE 0)) \div SecondsPerDay

\* Optional[int]: <<>> is None.  A text that does not parse raises ValueError,
\* None raises AttributeError, an offset-aware datetime raises TypeError in
\* the subtraction; all are caught.
days_ago(date_str, now) ==
    IF ~IsoParses(StripUtc(date_str)) THEN <<>>
    ELSE IF StripUtc(date_str).tz # "" THEN <<>>
    ELSE <<DeltaDays(now, StripUtc(date_str))>>

-----------------------------------------------------------------------------
(* Transport.  A response of requests.get is [kind |-> "timeout"],          *)
(* [kind |-> "connerr"] (both raised as exceptions) or                     *)
(* [kind |-> "http", status, valid, data]: valid says whether the body is  *)
(* JSON, data is the decoded body: [array |-> list] for a JSON array,      *)
(* [object |-> dict] for a JSON object (one with at least one key).        *)

Timeout == [kind |-> "timeout"]
ConnErr == [kind |-> "connerr"]
JArray(list) == [array |-> list]
JObject(dict) == [object |-> dict]
IsArray(data) == "array" \in DOMAIN data

Http(status, data) == [kind |-> "http", status |-> status, valid |-> TRUE, data |-> data]
NotJson(status) == [kind |-> "http", status |-> status, valid |-> FALSE]

\* the result of a function call: a return value or an exception
Return(v) == [raised |-> FALSE, value |-> v]
Raise == [raised |-> TRUE, value |-> <<>>]

\* safe_get returns the response (TRUE) or None (FALSE)
safe_get(resp) == resp.kind = "http" /\ resp.status = 200

DescriptionLimit == 1200

\* (it.get(outer) or {}).get(inner, "")
Nested(it, outer, inner) ==
    IF outer \in DOMAIN it THEN Get(it[outer], inner, EmptyStr) ELSE EmptyStr

LeverJob(it, company_slug) ==
    [title |-> Get(it, "text", None),
     company |-> company_slug,
     location |-> Nested(it, "categories", "location"),
     team |-> Nested(it, "categories", "team"),
     commitment |-> Nested(it, "categories", "commitment"),
     url |-> Or(Get(it, "hostedUrl", None), Get(it, "applyUrl", None)),
     description |-> Prefix(Or(Get(it, "descriptionPlain", None), EmptyStr), DescriptionLimit),
     posted_at |-> IF "createdAt" \in DOMAIN it
                   THEN Iso(it.createdAt.s, it.createdAt.ms, "")
                   ELSE NoDate,
     source |-> "Lever",
     tags |-> Get(it, "tags", <<>>)]

\* the body of fetch_lever, given the response the transport produces;
\* r.json() raises on a body that is not JSON, and iterating a JSON object
\* yields its keys, on which it.get raises AttributeError
fetch_lever(company_slug, resp) ==
    IF ~safe_get(resp) THEN Return(<<>>)
    ELSE IF ~resp.valid THEN Raise
    ELSE IF ~IsArray(resp.data) THEN Raise
    ELSE LET data == resp.data.array
         IN  Return([i \in 1..Len(data) |-> LeverJob(data[i], company_slug)])

GreenhouseJob(it, board_slug) ==
    [title |-> Get(it, "title", None),
     company |-> board_slug,
     location |-> Nested(it, "location", "name"),
     team |-> IF "departments" \in DOMAIN it /\ it.departments # <<>>
              THEN Get(it.departments[1], "name", EmptyStr)
              ELSE EmptyStr,
     commitment |-> Get(it, "commitment", EmptyStr),
     url |-> Get(it, "absolute_url", None),
     description |-> EmptyStr,
     posted_at |-> DateOr(Get(it, "updated_at", NoDate), Get(it, "created_at", NoDate)),
     source |-> "Greenhouse",
     tags |-> <<>>]

\* the body of fetch_greenhouse; data.get raises AttributeError on a list
fetch_greenhouse(board_slug, resp) ==
    IF ~safe_get(resp) THEN Return(<<>>)
    ELSE IF ~resp.valid THEN Raise
    ELSE IF IsArray(resp.data) THEN Raise
    ELSE LET items == Get(resp.data.object, "jobs", <<>>)
         IN  Return([i \in 1..Len(items) |-> GreenhouseJob(items[i], board_slug)])

\* it.get(key, [{}])[0] raises IndexError
FirstRaises(it, key) == key \in DOMAIN it /\ it[key] = <<>>

\* it.get(key, [{}])[0].get("link")
FirstLink(it, key) ==
    IF key \in DOMAIN it THEN Get(it[key][1], "link", None) ELSE None

SerpJobRaises(it) ==
    \/ FirstRaises(it, "related_links")
    \/ ~Truthy(FirstLink(it, "related_links")) /\ FirstRaises(it, "apply_options")

SerpJob(it) ==
    [title |-> Get(it, "title", EmptyStr),
     company |-> Get(it, "company_name", EmptyStr),
     location |-> Get(it, "location", EmptyStr),
     team |-> EmptyStr,
     commitment |-> Nested(it, "detected_extensions", "schedule_type"),
     url |-> Or(FirstLink(it, "related_links"), FirstLink(it, "apply_options")),
     description |-> Prefix(Or(Get(it, "description", EmptyStr), EmptyStr), DescriptionLimit),
     posted_at |-> IF "detected_extensions" \in DOMAIN it
                   THEN Get(it.detected_extensions, "posted_at", EmptyDate)
                   ELSE EmptyDate,
     source |-> "SerpAPI",
     tags |-> <<>>]

\* the body of fetch_serpapi_jobs; without api_key no request is made, and
\* every exception of the request, of r.json() and of the loop is caught
\* and gives []
fetch_serpapi_jobs(api_key, resp) ==
    IF ~Truthy(api_key) THEN Return(<<>>)
    ELSE IF resp.kind # "http" THEN Return(<<>>)
    ELSE IF resp.status # 200 THEN Return(<<>>)
    ELSE IF ~resp.valid THEN Return(<<>>)
    ELSE IF IsArray(resp.data) THEN Return(<<>>)
    ELSE LET items == Get(resp.data.object, "jobs_results", <<>>)
         IN  IF \E i \in 1..Len(items) : SerpJobRaises(items[i])
             THEN Return(<<>>)
             ELSE Return([i \in 1..Len(items) |-> SerpJob(items[i])])

-----------------------------------------------------------------------------
(* Matcher *)

\* " ".join([...]) raises TypeError when an item is None
KeywordMatchRaises(job) ==
    \E k \in {"title", "company", "location", "description"} :
        Get(job, k, EmptyStr) = None

keyword_match(job, keywords) ==
    LET hay == normalize_text(join(<<" ">>,
                   <<Get(job, "title", EmptyStr),
                     Get(job, "company", EmptyStr),
                     Get(job, "location", EmptyStr),
                     Get(job, "description", EmptyStr),
                     join(<<" ">>, Get(job, "tags", <<>>))>>))
    IN  \E i \in 1..Len(keywords) :
            /\ strip(keywords[i]) # EmptyStr
            /\ Contains(normalize_text(keywords[i]), hay)

Remote == <<"r", "e", "m", "o", "t", "e">>

location_match(job, locations, remote_ok) ==
    LET loc == normalize_text(Get(job, "location", EmptyStr))
    IN  IF remote_ok /\ (Contains(Remote, loc) \/ loc = EmptyStr)
        THEN TRUE
        ELSE \E i \in 1..Len(locations) :
                 /\ strip(locations[i]) # EmptyStr
                 /\ Contains(normalize_text(locations[i]), loc)

\* the check with age >= posted_within_days
RecencyDrops_Inclusive(j, posted_within_days, now) ==
    /\ DateTruthy(j.posted_at)
    /\ LET age == days_ago(j.posted_at, now)
       IN  age # <<>> /\ age[1] >= posted_within_days

\* lines 312-315: the job is dropped by the recency check
RecencyDrops(j, posted_within_days, now) ==
    /\ DateTruthy(j.posted_at)
    /\ LET age == days_ago(j.posted_at, now)
       IN  age # <<>> /\ age[1] > posted_within_days

\* lines 306-316: the filter loop of run_scan
FilterJobs(all_jobs, combined_keywords, locations, remote_ok, posted_within_days, now) ==
    LET Keep(j) == /\ keyword_match(j, combined_keywords)
                   /\ location_match(j, locations, remote_ok)
                   /\ ~RecencyDrops(j, posted_within_days, now)
        \* the jobs before the first one on which keyword_match raises
        reached(i) == \A k \in 1..(i - 1) : ~KeywordMatchRaises(all_jobs[k])
    IN  IF \E i \in 1..Len(all_jobs) : reached(i) /\ KeywordMatchRaises(all_jobs[i])
        THEN Raise
        ELSE Return(SelectSeq(all_jobs, Keep))

-----------------------------------------------------------------------------
(* Board URLs.  A URL is [scheme, host, path]: the text is                  *)
(* scheme "://" host path when scheme is not empty, and host path when it  *)
(* is; host holds no "/" and path is empty or starts with "/".             *)

urlparse(url) ==
    IF url.scheme # EmptyStr
    THEN [netloc |-> url.host, path |-> url.path]
    ELSE [netloc |-> EmptyStr, path |-> url.host \o url.path]

\* s.strip("/")
RECURSIVE lstripSlash(_)
lstripSlash(s) == IF s # <<>> /\ Head(s) = "/" THEN lstripSlash(Tail(s)) ELSE s

RECURSIVE rstripSlash(_)
rstripSlash(s) ==
    IF s # <<>> /\ s[Len(s)] = "/" THEN rstripSlash(SubSeq(s, 1, Len(s) - 1)) ELSE s

stripSlash(s) == rstripSlash(lstripSlash(s))

\* s.split("/"): a list of Len + 1 segments where Len is the number of "/"
RECURSIVE SplitFrom(_, _, _)
SplitFrom(s, i, cur) ==
    IF i > Len(s) THEN <<cur>>
    ELSE IF s[i] = "/" THEN <<cur>> \o SplitFrom(s, i + 1, <<>>)
    ELSE SplitFrom(s, i + 1, Append(cur, s[i]))

split(s) == SplitFrom(s, 1, <<>>)

LeverMarker == <<"l", "e", "v", "e", "r", ".", "c", "o">>
GreenhouseMarker == <<"g", "r", "e", "e", "n", "h", "o", "u", "s", "e", ".", "i", "o">>

\* the markers looked for in the whole text after the scheme
parse_board_url_AnyPart(url) ==
    LET p == urlparse(url)
        text == lower(p.netloc \o p.path)
        path == split(stripSlash(p.path))
    IN  IF Contains(LeverMarker, text) /\ path # <<>>
        THEN [src |-> "Lever", slug |-> path[1]]
        ELSE IF Contains(GreenhouseMarker, text) /\ path # <<>>
        THEN [src |-> "Greenhouse", slug |-> path[1]]
        ELSE [src |-> "Unknown", slug |-> EmptyStr]

parse_board_url(url) ==
    LET p == urlparse(url)
        host == lower(p.netloc)
        path == split(stripSlash(p.path))
    IN  IF Contains(LeverMarker, host) /\ path # <<>>
        THEN [src |-> "Lever", slug |-> path[1]]
        ELSE IF Contains(GreenhouseMarker, host) /\ path # <<>>
        THEN [src |-> "Greenhouse", slug |-> path[1]]
        ELSE [src |-> "Unknown", slug |-> EmptyStr]

-----------------------------------------------------------------------------
(* Sorting (lines 351-360) *)

\* code point of a character
Ord(c) ==
    CASE c = "\t" -> 9
      [] c = " " -> 32
      [] c = "a" -> 97
      [] c = "e" -> 101
      [] c = "i" -> 105
      [] c = "j" -> 106
      [] c = "l" -> 108
      [] c = "m" -> 109
      [] c = "o" -> 111
      [] c = "q" -> 113
      [] c = "r" -> 114
      [] c = "s" -> 115
      [] c = "t" -> 116
      [] c = "v" -> 118
      [] OTHER -> 63

\* a < b for str
RECURSIVE StrLess(_, _)
StrLess(a, b) ==
    IF b = <<>> THEN FALSE
    ELSE IF a = <<>> THEN TRUE
    ELSE IF Ord(Head(a)) # Ord(Head(b)) THEN Ord(Head(a)) < Ord(Head(b))
    ELSE StrLess(Tail(a), Tail(b))

\* a < b for the integers held in <<a>> and <<b>>
IntLess(a, b) == a[1] < b[1]

\* a < b for two keys of one sort: str keys or int keys
KeyLess(a, b, strs) == IF strs THEN StrLess(a, b) ELSE IntLess(a, b)

\* sorted(items, key=...): the stable sort of items by keys[i], the key of
\* items[i]; an item goes behind the items whose key is less and behind the
\* earlier items whose key is equal
StableSort(items, keys, strs) ==
    LET n == Len(items)
        Before(j, i) == KeyLess(keys[j], keys[i], strs)
                        \/ (~KeyLess(keys[i], keys[j], strs) /\ j < i)
        Rank(i) == Cardinality({j \in (1..n) \ {i} : Before(j, i)}) + 1
    IN  [p \in 1..n |-> items[CHOOSE i \in 1..n : Rank(i) = p]]

UnknownAge == 9999

\* sort_recent(j)
sort_recent(j, now) ==
    IF DateTruthy(Get(j, "posted_at", EmptyDate))
    THEN days_ago(Get(j, "posted_at", EmptyDate), now)
    ELSE <<UnknownAge>>

\* lines 352-360; comparing None with a key raises TypeError, and sorted()
\* compares every item of a list of two or more
SortJobs(jobs, sort_by, now) ==
    LET n == Len(jobs)
    IN  IF sort_by = "Company"
        THEN Return(StableSort(jobs,
                 [i \in 1..n |-> normalize_text(Get(jobs[i], "company", EmptyStr))], TRUE))
        ELSE IF sort_by = "Title"
        THEN Return(StableSort(jobs,
                 [i \in 1..n |-> normalize_text(Get(jobs[i], "title", EmptyStr))], TRUE))
        ELSE LET keys == [i \in 1..n |-> sort_recent(jobs[i], now)]
             IN  IF n >= 2 /\ \E i \in 1..n : keys[i] = <<>>
                 THEN Raise
                 ELSE Return(StableSort(jobs, keys, FALSE))

-----------------------------------------------------------------------------
(* st.cache_data(ttl=60 * 30): each fetcher has a store of entries          *)
(* [key, value, at]; key is the argument tuple, at the time of the call    *)
(* that computed value.  An exception is not stored.                       *)

CacheTtl == 1800

CacheHit(entries, key, now) ==
    \E e \in entries : e.key = key /\ now - e.at < CacheTtl

CacheValue(entries, key, now) ==
    (CHOOSE e \in entries : e.key = key /\ now - e.at < CacheTtl).value

CachePut(entries, key, value, now) ==
    {e \in entries : e.key # key} \cup {[key |-> key, value |-> value, at |-> now]}

\* a call of the decorated function: `result` is what the body gives
CachedCall(entries, key, result, now) ==
    IF CacheHit(entries, key, now)
    THEN [raised |-> FALSE, value |-> CacheValue(entries, key, now),
          entries |-> entries, hit |-> TRUE]
    ELSE IF result.raised
    THEN [raised |-> TRUE, value |-> <<>>, entries |-> entries, hit |-> FALSE]
    ELSE [raised |-> FALSE, value |-> result.value,
          entries |-> CachePut(entries, key, result.value, now), hit |-> FALSE]

-----------------------------------------------------------------------------
(* The outside world: what the three endpoints answer.  A response is named *)
(* by an identifier; the same identifier gives each endpoint the response  *)
(* of that kind in the endpoint's own format.                              *)

StartClock == 100 * SecondsPerDay

Str_QA == <<"Q", "A">>
Str_SI == <<"S", "I">>
Str_SE == <<"S", "E">>
Str_VE == <<"V", "E">>
Str_EV == <<"E", "V">>
Str_SJ == <<"S", "J">>
Str_Remote == <<"R", "e", "m", "o", "t", "e">>
Url1 == <<"u", "1">>
Url2 == <<"u", "2">>

\* a posting created `days` days and `ms` milliseconds before StartClock
CreatedAt(days, ms) ==
    IF ms = 0 THEN [s |-> StartClock - days * SecondsPerDay, ms |-> 0]
    ELSE [s |-> StartClock - days * SecondsPerDay - 1, ms |-> 1000 - ms]

LeverPosting ==
    [text |-> Str_QA, hostedUrl |-> Url1, createdAt |-> CreatedAt(1, 0),
     categories |-> [location |-> Str_Remote]]

\* the provider writes its timestamps with the board's UTC offset
GreenhousePosting ==
    [title |-> <<"S", "I", " ", "E", "V">>, absolute_url |-> Url1,
     location |-> [name |-> Str_SJ],
     updated_at |-> Iso(StartClock - SecondsPerDay, 0, "-04:00")]

SerpPosting ==
    [title |-> <<"q", "a", " ", "E", "V">>, company_name |-> <<"a">>,
     related_links |-> <<[link |-> Url2]>>,
     detected_extensions |-> [posted_at |-> FreeText]]

ResponseIds == {"timeout", "connerr", "http404", "notjson", "dup", "partial"}

FailureIds == {"timeout", "connerr", "http404", "notjson"}

FailureResponse(id) ==
    CASE id = "timeout" -> Timeout
      [] id = "connerr" -> ConnErr
      [] id = "http404" -> NotJson(404)
      [] id = "notjson" -> NotJson(200)

\* "dup": two postings with identical title, company and url;
\* "partial": a posting with optional fields missing, then a complete one
LeverResponse(id) ==
    CASE id = "dup" -> Http(200, JArray(<<LeverPosting, LeverPosting>>))
      [] id = "partial" -> Http(200, JArray(<<[hostedUrl |-> Url2], LeverPosting>>))
      [] OTHER -> FailureResponse(id)

GreenhouseResponse(id) ==
    CASE id = "dup" ->
             Http(200, JObject([jobs |-> <<GreenhousePosting, GreenhousePosting>>]))
      [] id = "partial" ->
             Http(200, JObject([jobs |-> <<[absolute_url |-> Url2], GreenhousePosting>>]))
      [] OTHER -> FailureResponse(id)

SerpResponse(id) ==
    CASE id = "dup" ->
             Http(200, JObject([jobs_results |-> <<SerpPosting, SerpPosting>>]))
      [] id = "partial" ->
             Http(200, JObject([jobs_results |->
                 <<[title |-> Str_QA, related_links |-> <<>>], SerpPosting>>]))
      [] OTHER -> FailureResponse(id)

-----------------------------------------------------------------------------
(* run_scan (lines 277-319) *)

PRESET_MAIN == <<Str_QA, Str_SE>>
PRESET_SYSTEMS == <<Str_SI, Str_VE>>

ZeroDiagnostics == [Lever |-> 0, Greenhouse |-> 0, SerpAPI |-> 0, Unknown |-> 0]

\* what one pass of the loop over board_urls, or the SerpAPI step, did
Step(src, slug, called, hit, resp, raised, count) ==
    [src |-> src, slug |-> slug, called |-> called, hit |-> hit, resp |-> resp,
     raised |-> raised, count |-> count]

\* lines 282-293 from the i-th URL on; acc holds all_jobs, diagnostics, the
\* cache, the steps so far and whether a fetcher raised
RECURSIVE ScanBoards(_, _, _, _, _)
ScanBoards(board_urls, i, acc, resp, now) ==
    IF acc.raised \/ i > Len(board_urls) THEN acc
    ELSE
      LET b == parse_board_url(board_urls[i])
      IN  IF b.src = "Unknown"
          THEN ScanBoards(board_urls, i + 1,
                   [acc EXCEPT !.diagnostics.Unknown = @ + 1,
                               !.trace = Append(@, Step("Unknown", b.slug, FALSE, FALSE,
                                                        "none", FALSE, 0))],
                   resp, now)
          ELSE
            LET r == IF b.src = "Lever"
                     THEN CachedCall(acc.cache.Lever, b.slug,
                                     fetch_lever(b.slug, LeverResponse(resp[i])), now)
                     ELSE CachedCall(acc.cache.Greenhouse, b.slug,
                                     fetch_greenhouse(b.slug, GreenhouseResponse(resp[i])), now)
                st == Step(b.src, b.slug, TRUE, r.hit, IF r.hit THEN "none" ELSE resp[i],
                           r.raised, Len(r.value))
            IN  IF r.raised
                THEN [acc EXCEPT !.raised = TRUE, !.trace = Append(@, st)]
                ELSE ScanBoards(board_urls, i + 1,
                         [acc EXCEPT !.all_jobs = @ \o r.value,
                                     !.diagnostics[b.src] = @ + Len(r.value),
                                     !.cache[b.src] = r.entries,
                                     !.trace = Append(@, st)],
                         resp, now)

\* " OR ".join([f'"{k}"' for k in preset])
SerpQuery(preset) ==
    join(<<" ", "O", "R", " ">>,
         [i \in 1..Len(preset) |-> <<"\"">> \o preset[i] \o <<"\"">>])

\* lines 296-300
ScanSerp(preset, w, acc, serp, now) ==
    IF acc.raised \/ ~(w.use_serpapi /\ Truthy(w.serpapi_key)) THEN acc
    ELSE
      LET key == [query |-> SerpQuery(preset), location |-> w.serpapi_location,
                  api_key |-> w.serpapi_key]
          r == CachedCall(acc.cache.SerpAPI, key,
                          fetch_serpapi_jobs(w.serpapi_key, SerpResponse(serp)), now)
      IN  [acc EXCEPT !.all_jobs = @ \o r.value,
                      !.diagnostics.SerpAPI = @ + Len(r.value),
                      !.cache.SerpAPI = r.entries,
                      !.trace = Append(@, Step("SerpAPI", EmptyStr, TRUE, r.hit,
                                               IF r.hit THEN "none" ELSE serp,
                                               FALSE, Len(r.value)))]

\* lines 302-319 once the fetch loop has left acc: `fetched` is all_jobs
\* before line 302; raw_total is the third value returned (line 319)
ScanResult(preset, w, now, acc) ==
    LET all_jobs == dedupe_jobs(acc.all_jobs)
        combined_keywords == preset \o w.tech_keywords
        f == FilterJobs(all_jobs, combined_keywords, w.locations, w.remote_ok,
                        w.posted_within_days, now)
    IN  [raised |-> acc.raised \/ f.raised,
         filtered |-> IF acc.raised THEN <<>> ELSE f.value,
         diagnostics |-> acc.diagnostics,
         raw_total |-> Len(all_jobs),
         fetched |-> acc.all_jobs,
         cache |-> acc.cache,
         trace |-> acc.trace]

\* run_scan(preset) with the widget values w, the cache c, at time now, when
\* the i-th board answers resp[i] and the aggregator answers serp
run_scan(preset, w, c, now, resp, serp) ==
    ScanResult(preset, w, now,
        ScanSerp(preset, w,
            ScanBoards(w.board_urls, 1,
                [all_jobs |-> <<>>, diagnostics |-> ZeroDiagnostics, cache |-> c,
                 trace |-> <<>>, raised |-> FALSE],
                resp, now),
            serp, now))

-----------------------------------------------------------------------------
(* One execution of the script (a Streamlit rerun) *)

DEFAULT_TECH == <<Str_EV>>
DefaultLocations == <<Str_Remote, Str_SJ>>
DefaultDays == 14

Https == <<"h", "t", "t", "p", "s">>
LeverHost == <<"j", "o", "b", "s", ".", "l", "e", "v", "e", "r", ".", "c", "o">>
GreenhouseHost ==
    <<"b", "o", "a", "r", "d", "s", ".", "g", "r", "e", "e", "n", "h", "o", "u", "s", "e", ".", "i", "o">>
ExampleHost == <<"e", "x", "a", "m", "p", "l", "e", ".", "c", "o", "m">>

Url(scheme, host, path) == [scheme |-> scheme, host |-> host, path |-> path]

LeverBoard == Url(Https, LeverHost, <<"/", "a">>)
GreenhouseBoard == Url(Https, GreenhouseHost, <<"/", "a">>)
OtherSite == Url(Https, ExampleHost, <<"/", "f", "o", "o">>)
LeverRoot == Url(Https, LeverHost, <<"/">>)

NoSession == [k \in {} |-> <<>>]

NotRun ==
    [button |-> "none", status |-> "not_run", jobs |-> <<>>, shown |-> <<>>,
     has_diag |-> FALSE, diagnostics |-> ZeroDiagnostics, raw_total |-> <<>>,
     fetched |-> <<>>, trace |-> <<>>]

\* lines 274-275
InitSession(sess) ==
    IF "last_jobs" \in DOMAIN sess THEN sess ELSE [last_jobs |-> <<>>]

\* the result is not stored
SetLastJobs_Dropped(sess, filtered) == sess

\* line 318
SetLastJobs(sess, filtered) == [sess EXCEPT !.last_jobs = filtered]

\* lines 322-360 with the session state s1 of line 275: scan is what
\* run_scan does when a scan button was pressed
Dispatch(button, w, s1, c, now, scan) ==
    LET scanned == button \in {"main", "systems"}
        \* lines 322-329
        jobs == IF scanned THEN scan.filtered ELSE s1.last_jobs
        \* lines 351-360
        sorted == SortJobs(jobs, w.sort_by, now)
    IN  IF scanned /\ scan.raised
        THEN [session |-> s1, cache |-> scan.cache,
              run |-> [NotRun EXCEPT !.button = button, !.status = "scan_raised",
                                     !.fetched = scan.fetched, !.trace = scan.trace]]
        ELSE [session |-> IF scanned THEN SetLastJobs(s1, scan.filtered) ELSE s1,
              cache |-> IF scanned THEN scan.cache ELSE c,
              run |-> [button |-> button,
                       status |-> IF sorted.raised THEN "sort_raised" ELSE "ok",
                       jobs |-> jobs,
                       shown |-> sorted.value,
                       has_diag |-> scanned,
                       diagnostics |-> IF scanned THEN scan.diagnostics ELSE ZeroDiagnostics,
                       raw_total |-> IF scanned THEN <<scan.raw_total>> ELSE <<>>,
                       fetched |-> IF scanned THEN scan.fetched ELSE <<>>,
                       trace |-> IF scanned THEN scan.trace ELSE <<>>]]

\* lines 210-395 with the widget values w; button is the button pressed, if
\* any.  The result holds the new session state, the new cache and the
\* record of the run.
Script(button, w, sess, c, now, resp, serp) ==
    Dispatch(button, w, InitSession(sess), c, now,
             run_scan(IF button = "main" THEN PRESET_MAIN ELSE PRESET_SYSTEMS,
                      w, c, now, resp, serp))

-----------------------------------------------------------------------------
(* The application: the user changes a widget or presses a button, and the  *)
(* script runs.  The user edits the board list and the sort order and      *)
(* leaves the other widgets, the optional search API among them, at their  *)
(* defaults.                                                               *)

MaxTicks == 1

AppBoardLists ==
    {<<>>, <<LeverBoard, GreenhouseBoard>>, <<OtherSite, LeverBoard>>, <<LeverRoot>>}
SortChoices == {"Recent", "Company", "Title"}
AppResponseIds == {"http404", "notjson", "dup", "partial"}

DefaultWidgets ==
    [tech_keywords |-> DEFAULT_TECH,
     locations |-> DefaultLocations,
     remote_ok |-> TRUE,
     posted_within_days |-> DefaultDays,
     board_urls |-> <<LeverBoard, GreenhouseBoard>>,
     serpapi_key |-> EmptyStr,
     serpapi_location |-> Str_SJ,
     use_serpapi |-> FALSE,
     sort_by |-> "Recent"]

EmptyCache == [Lever |-> {}, Greenhouse |-> {}, SerpAPI |-> {}]

Init ==
    /\ widgets = DefaultWidgets
    /\ session = NoSession
    /\ cache = EmptyCache
    /\ clock = StartClock
    /\ run = NotRun
    /\ call = [fn |-> "none"]

\* the script runs with widget values w and no button pressed
Rerun(w) ==
    \E r \in {Script("none", w, session, cache, clock, <<>>, "none")} :
        /\ widgets' = w
        /\ session' = r.session
        /\ cache' = r.cache
        /\ run' = r.run
        /\ UNCHANGED <<clock, call>>

\* the script runs with a scan button pressed; the endpoints answer with
\* responses among ids
Click(button, ids) ==
    \E resp \in [1..Len(widgets.board_urls) -> ids],
       serp \in IF widgets.use_serpapi /\ Truthy(widgets.serpapi_key)
                THEN ids ELSE {"none"} :
        \E r \in {Script(button, widgets, session, cache, clock, resp, serp)} :
            /\ session' = r.session
            /\ cache' = r.cache
            /\ run' = r.run
            /\ UNCHANGED <<widgets, clock, call>>

ClickMain == Click("main", AppResponseIds)

ClickSystems == Click("systems", AppResponseIds)

EditBoards ==
    \E b \in AppBoardLists : b # widgets.board_urls /\ Rerun([widgets EXCEPT !.board_urls = b])

SelectSort ==
    \E v \in SortChoices : v # widgets.sort_by /\ Rerun([widgets EXCEPT !.sort_by = v])

\* half an hour passes: every entry of the cache is older than the ttl
Tick ==
    /\ clock < StartClock + MaxTicks * CacheTtl
    /\ clock' = clock + CacheTtl
    /\ cache' = [f \in DOMAIN cache |-> {e \in cache[f] : clock' - e.at < CacheTtl}]
    /\ UNCHANGED <<widgets, session, run, call>>

Next ==
    \/ ClickMain
    \/ ClickSystems
    \/ EditBoards
    \/ SelectSort
    \/ Tick

Spec == Init /\ [][Next]_vars

-----------------------------------------------------------------------------
(* One scan: the widgets hold any of the values below when a scan button   *)
(* is pressed for the first time.                                          *)

MaxBoards == 2

KeyChoices == {EmptyStr, <<"k">>}

\* https://Jobs.Lever.co//a/b/
LeverMixedCase ==
    Url(Https, <<"J", "o", "b", "s", ".", "L", "e", "v", "e", "r", ".", "c", "o">>,
        <<"/", "/", "a", "/", "b", "/">>)
\* jobs.lever.co/a
LeverNoScheme == Url(EmptyStr, LeverHost, <<"/", "a">>)
\* https://boards.greenhouse.io
GreenhouseRoot == Url(Https, GreenhouseHost, EmptyStr)

BoardChoices ==
    {LeverBoard, GreenhouseBoard, OtherSite, LeverRoot, LeverMixedCase, LeverNoScheme,
     GreenhouseRoot}
BoardLists == UNION {[1..n -> BoardChoices] : n \in 0..MaxBoards}

ScanWidgets ==
    {[DefaultWidgets EXCEPT !.board_urls = b, !.use_serpapi = u, !.serpapi_key = k] :
        b \in BoardLists, u \in BOOLEAN, k \in KeyChoices}

ScanInit ==
    /\ widgets \in ScanWidgets
    /\ session = [last_jobs |-> <<>>]
    /\ cache = EmptyCache
    /\ clock = StartClock
    /\ run = NotRun
    /\ call = [fn |-> "none"]

ScanMain == run = NotRun /\ Click("main", ResponseIds)

ScanSystems == run = NotRun /\ Click("systems", ResponseIds)

ScanNext == ScanMain \/ ScanSystems

SpecScan == ScanInit /\ [][ScanNext]_vars

-----------------------------------------------------------------------------
(* Direct calls of the helpers.  `call` holds the function called and its   *)
(* argument, and its result once the call has returned.                    *)

\* the application has just been opened
Fresh ==
    /\ widgets = DefaultWidgets
    /\ session = NoSession
    /\ cache = EmptyCache
    /\ clock = StartClock
    /\ run = NotRun

Pending(fn) == call.fn = fn /\ "ret" \notin DOMAIN call

Returned(fn) == call.fn = fn /\ "ret" \in DOMAIN call

JobOf(title, company, url, posted_at, source) ==
    [title |-> title, company |-> company, location |-> Str_Remote, team |-> EmptyStr,
     commitment |-> EmptyStr, url |-> url, description |-> EmptyStr,
     posted_at |-> posted_at, source |-> source, tags |-> <<>>]

\* d restricted to the keys in S
Restrict(d, S) == [k \in S |-> d[k]]

(* dedupe_jobs *)

MaxJobs == 3

DedupeTitles == {<<"Q", " ", "\t", "A">>, <<" ", "q", " ", "a">>, None, EmptyStr}
DedupeCompanies == {<<"a">>, <<"A", " ">>}
DedupeUrls == {Url1, None}

DedupeJobs ==
    {JobOf(t, c, u, NoDate, "Lever") : t \in DedupeTitles, c \in DedupeCompanies,
                                        u \in DedupeUrls}

JobLists == UNION {[1..n -> DedupeJobs] : n \in 0..MaxJobs}

DedupeInit ==
    /\ Fresh
    /\ call \in {[fn |-> "dedupe_jobs", arg |-> jobs] : jobs \in JobLists}

CallDedupe ==
    /\ Pending("dedupe_jobs")
    /\ call' = [fn |-> call.fn, arg |-> call.arg, ret |-> dedupe_jobs(call.arg)]
    /\ UNCHANGED <<widgets, session, cache, clock, run>>

DedupeNext == CallDedupe

SpecDedupe == DedupeInit /\ [][DedupeNext]_vars

(* the filter loop of run_scan on one job *)

MinDays == 1
MaxDays == 60

\* the instant `age` seconds before `now`, less ms milliseconds
Posted(now, age, ms, tz) ==
    IF ms = 0 THEN Iso(now - age, 0, tz) ELSE Iso(now - age - 1, 1000 - ms, tz)

\* dates posted about w days ago, and dates of which the age is not known
FilterDates(now, w) ==
    {Posted(now, d * SecondsPerDay + off, ms, tz) :
        d \in {w - 1, w, w + 1, w + 2},
        off \in {0, 1, SecondsPerDay - 1},
        ms \in {0, 500},
        tz \in {"", "Z", "+00:00", "-04:00"}}
    \cup {NoDate, EmptyDate, FreeText, Posted(now, -3600, 0, "")}

FilterInit ==
    /\ Fresh
    /\ call \in {[fn |-> "filter",
                  arg |-> [job |-> JobOf(Str_QA, <<"a">>, Url1, p, "Greenhouse"),
                           posted_within_days |-> w, now |-> StartClock]] :
                    w \in MinDays..MaxDays, p \in UNION {FilterDates(StartClock, v) : v \in MinDays..MaxDays}}

CallFilter ==
    /\ Pending("filter")
    /\ call' = [fn |-> call.fn, arg |-> call.arg,
                ret |-> FilterJobs(<<call.arg.job>>, PRESET_MAIN \o DEFAULT_TECH,
                                   DefaultLocations, TRUE, call.arg.posted_within_days,
                                   call.arg.now)]
    /\ UNCHANGED <<widgets, session, cache, clock, run>>

FilterNext == CallFilter

SpecFilter == FilterInit /\ [][FilterNext]_vars

(* the fetchers *)

FullLeverPosting ==
    [text |-> Str_QA,
     categories |-> [location |-> Str_Remote, team |-> <<"q">>, commitment |-> <<"a">>],
     hostedUrl |-> Url1, applyUrl |-> Url2, descriptionPlain |-> Str_EV,
     createdAt |-> CreatedAt(1, 500), tags |-> <<Str_SE>>]

LeverRecords ==
    {Restrict(FullLeverPosting, S) : S \in SUBSET DOMAIN FullLeverPosting}
    \cup {[FullLeverPosting EXCEPT !.categories = [team |-> <<"q">>]]}

FullGreenhousePosting ==
    [title |-> Str_SI, location |-> [name |-> Str_SJ],
     departments |-> <<[name |-> <<"q">>]>>, commitment |-> <<"a">>,
     absolute_url |-> Url1, updated_at |-> Iso(StartClock - SecondsPerDay, 0, "-04:00"),
     created_at |-> Iso(StartClock - 2 * SecondsPerDay, 0, "Z")]

GreenhouseRecords ==
    {Restrict(FullGreenhousePosting, S) : S \in SUBSET DOMAIN FullGreenhousePosting}
    \cup {[FullGreenhousePosting EXCEPT !.departments = <<>>],
          [FullGreenhousePosting EXCEPT !.departments = <<[id |-> 1]>>]}

FullSerpPosting ==
    [title |-> Str_QA, company_name |-> <<"a">>, location |-> Str_SJ,
     detected_extensions |-> [schedule_type |-> <<"q">>, posted_at |-> FreeText],
     related_links |-> <<[link |-> Url1]>>, apply_options |-> <<[link |-> Url2]>>,
     description |-> Str_EV]

SerpRecords ==
    {Restrict(FullSerpPosting, S) : S \in SUBSET DOMAIN FullSerpPosting}
    \cup {[FullSerpPosting EXCEPT !.related_links = rl, !.apply_options = ao,
                                  !.detected_extensions = de] :
            rl \in {<<>>, <<[text |-> <<"q">>]>>, <<[link |-> Url1]>>},
            ao \in {<<>>, <<[link |-> Url2]>>},
            de \in {[schedule_type |-> <<"q">>], [posted_at |-> FreeText]}}

BadResponses ==
    {Timeout, ConnErr, NotJson(404), NotJson(500), NotJson(204), NotJson(200)}

\* the responses that carry the records `records`, each alone and after
\* the complete record `full`
Bodies(records, full) == {<<r>> : r \in records} \cup {<<full, r>> : r \in records}

LeverResponses ==
    BadResponses
    \cup {Http(200, JArray(b)) : b \in Bodies(LeverRecords, FullLeverPosting) \cup {<<>>}}
    \cup {Http(200, JObject([ok |-> FALSE])), Http(500, JArray(<<FullLeverPosting>>))}

GreenhouseResponses ==
    BadResponses
    \cup {Http(200, JObject([jobs |-> b])) :
            b \in Bodies(GreenhouseRecords, FullGreenhousePosting) \cup {<<>>}}
    \cup {Http(200, JObject([ok |-> FALSE])), Http(200, JArray(<<>>))}

SerpResponses ==
    BadResponses
    \cup {Http(200, JObject([jobs_results |-> b])) :
            b \in Bodies(SerpRecords, FullSerpPosting) \cup {<<>>}}
    \cup {Http(200, JObject([error |-> <<"q">>])), Http(200, JArray(<<>>))}

Slugs == {<<"a">>, EmptyStr}

FetchInit ==
    /\ Fresh
    /\ \/ call \in {[fn |-> "fetch_lever", arg |-> [slug |-> slug, resp |-> resp]] :
                       slug \in Slugs, resp \in LeverResponses}
       \/ call \in {[fn |-> "fetch_greenhouse", arg |-> [slug |-> slug, resp |-> resp]] :
                       slug \in Slugs, resp \in GreenhouseResponses}
       \/ call \in {[fn |-> "fetch_serpapi_jobs",
                      arg |-> [api_key |-> api_key, resp |-> resp]] :
                       api_key \in KeyChoices, resp \in SerpResponses}

CallFetchLever ==
    /\ Pending("fetch_lever")
    /\ call' = [fn |-> call.fn, arg |-> call.arg,
                ret |-> fetch_lever(call.arg.slug, call.arg.resp)]
    /\ UNCHANGED <<widgets, session, cache, clock, run>>

CallFetchGreenhouse ==
    /\ Pending("fetch_greenhouse")
    /\ call' = [fn |-> call.fn, arg |-> call.arg,
                ret |-> fetch_greenhouse(call.arg.slug, call.arg.resp)]
    /\ UNCHANGED <<widgets, session, cache, clock, run>>

CallFetchSerpapi ==
    /\ Pending("fetch_serpapi_jobs")
    /\ call' = [fn |-> call.fn, arg |-> call.arg,
                ret |-> fetch_serpapi_jobs(call.arg.api_key, call.arg.resp)]
    /\ UNCHANGED <<widgets, session, cache, clock, run>>

FetchNext == CallFetchLever \/ CallFetchGreenhouse \/ CallFetchSerpapi

SpecFetch == FetchInit /\ [][FetchNext]_vars

-----------------------------------------------------------------------------
(* Properties *)

ScanRan == run.button # "none"

RECURSIVE CountFrom(_, _, _)
CountFrom(trace, src, i) ==
    IF i > Len(trace) THEN 0
    ELSE (IF trace[i].src = src THEN trace[i].count ELSE 0) + CountFrom(trace, src, i + 1)

\* C1: the rawTotal that run_scan returns is the number of jobs fetched
\* before deduplication, which is the sum of the Lever, Greenhouse and
\* SerpAPI counts of diagnostics (two identical postings of one Lever board
\* give rawTotal 2).
C1_RawTotalCountsFetchedJobs ==
    run.has_diag =>
        /\ Len(run.fetched) = run.diagnostics.Lever + run.diagnostics.Greenhouse
                              + run.diagnostics.SerpAPI
        /\ run.raw_total = <<Len(run.fetched)>>

\* C2: a fetcher whose transport gives a non-2xx status, a timeout, a
\* connection error or a 200 body that is not JSON returns an empty sequence
\* without raising, and the scan runs to completion.
C2_FetchFailuresAreNotFatal ==
    ScanRan =>
        /\ \A i \in 1..Len(run.trace) :
               run.trace[i].resp \in FailureIds =>
                   ~run.trace[i].raised /\ run.trace[i].count = 0
        /\ (\A i \in 1..Len(run.trace) : run.trace[i].resp \in FailureIds \cup {"dup", "none"})
               => run.status # "scan_raised"

FetcherReturned ==
    Returned("fetch_lever") \/ Returned("fetch_greenhouse") \/ Returned("fetch_serpapi_jobs")

\* C3: every job a fetcher produces, whatever optional fields the raw
\* record lacks, has a string (never None) as title and as company, so
\* keyword_match is defined on it.
C3_TitleAndCompanyAreStrings ==
    FetcherReturned /\ ~call.ret.raised =>
        \A i \in 1..Len(call.ret.value) :
            /\ call.ret.value[i].title # None
            /\ call.ret.value[i].company # None
            /\ ~KeywordMatchRaises(call.ret.value[i])

\* the records of a 200 response whose body is JSON of the endpoint's format
RecordsOf(c) ==
    LET resp == c.arg.resp
        ok == resp.kind = "http" /\ resp.status = 200 /\ resp.valid
    IN  IF c.fn = "fetch_lever" /\ ok /\ IsArray(resp.data)
        THEN resp.data.array
        ELSE IF c.fn = "fetch_greenhouse" /\ ok /\ ~IsArray(resp.data)
        THEN Get(resp.data.object, "jobs", <<>>)
        ELSE IF c.fn = "fetch_serpapi_jobs" /\ ok /\ ~IsArray(resp.data)
                /\ Truthy(c.arg.api_key)
        THEN Get(resp.data.object, "jobs_results", <<>>)
        ELSE <<>>

\* C4: a record of a successful response that lacks fields or has a field
\* of unexpected shape is normalized by defaulting and the fetch does not
\* fail as a whole: every record of the response is returned as a job.
C4_EveryRecordBecomesAJob ==
    FetcherReturned =>
        (RecordsOf(call) # <<>> =>
            ~call.ret.raised /\ Len(call.ret.value) = Len(RecordsOf(call)))

ClaimKey(j) == <<normalize_text(j.title), normalize_text(j.company), j.url>>

FirstOccurrences(X) ==
    {i \in 1..Len(X) : \A k \in 1..(i - 1) : ClaimKey(X[k]) # ClaimKey(X[i])}

\* the p-th smallest element of the set S of integers
NthOf(S, p) == CHOOSE i \in S : Cardinality({k \in S : k < i}) = p - 1

\* C5: dedupe_jobs(X) is the subsequence of X made of the first occurrence
\* of each key (normalized title, normalized company, raw url), in the order
\* of X, and deduplicating the result again changes nothing.
C5_DedupeKeepsFirstOccurrences ==
    Returned("dedupe_jobs") =>
        LET X == call.arg
            R == call.ret
            F == FirstOccurrences(X)
        IN  /\ Len(R) = Cardinality(F)
            /\ \A p \in 1..Len(R) : R[p] = X[NthOf(F, p)]
            /\ dedupe_jobs(R) = R

C5_Witness ==
    /\ Returned("dedupe_jobs")
    /\ Len(call.arg) = 3
    /\ ClaimKey(call.arg[1]) = ClaimKey(call.arg[3])
    /\ call.arg[1] # call.arg[3]
    /\ ClaimKey(call.arg[1]) # ClaimKey(call.arg[2])
    /\ call.ret = <<call.arg[1], call.arg[2]>>

\* the date is ISO-8601 text which, with a trailing "Z" or "+00:00"
\* removed, is a time without offset
ParsesAsUtc(p) == p.fmt = "iso" /\ p.tz \in {"", "Z", "+00:00"}

\* at `now` the instant of p lies n whole days or more in the past
AtLeastDaysOld(p, now, n) ==
    \/ now - p.s > n * SecondsPerDay
    \/ now - p.s = n * SecondsPerDay /\ p.ms = 0

WholeDaysOld(p, now, n) == AtLeastDaysOld(p, now, n) /\ ~AtLeastDaysOld(p, now, n + 1)

MatchesNeither(url) ==
    LET host == lower(urlparse(url).netloc)
    IN  ~Contains(LeverMarker, host) /\ ~Contains(GreenhouseMarker, host)

\* C7: for a board URL whose host matches neither provider, run_scan calls
\* no fetcher and fetches no job; it adds exactly 1 to diagnostics["Unknown"]
\* and leaves the other counters alone: Unknown is the number of such URLs
\* and every other counter is the number of jobs that source's fetcher
\* returned, which together are the jobs fetched.
C7_UnknownBoardsAreOnlyCounted ==
    ScanRan =>
        /\ \A i \in 1..Len(run.trace) :
               i <= Len(widgets.board_urls) /\ MatchesNeither(widgets.board_urls[i]) =>
                   /\ run.trace[i].src = "Unknown"
                   /\ ~run.trace[i].called
                   /\ run.trace[i].count = 0
        /\ run.has_diag =>
               /\ run.diagnostics.Unknown =
                      Cardinality({i \in 1..Len(widgets.board_urls) :
                                       MatchesNeither(widgets.board_urls[i])})
               /\ \A src \in {"Lever", "Greenhouse", "SerpAPI"} :
                      run.diagnostics[src] = CountFrom(run.trace, src, 1)
               /\ Len(run.fetched) = CountFrom(run.trace, "Lever", 1)
                                     + CountFrom(run.trace, "Greenhouse", 1)
                                     + CountFrom(run.trace, "SerpAPI", 1)
               /\ run.raw_total[1] <= Len(run.fetched)

C7_Witness ==
    /\ run.has_diag
    /\ Len(widgets.board_urls) = 2
    /\ MatchesNeither(widgets.board_urls[1])
    /\ widgets.board_urls[1].scheme = EmptyStr
    /\ run.diagnostics.Unknown = 1
    /\ run.diagnostics.Lever = 2
    /\ Len(run.fetched) = 2

\* C8: sorted by "Most recent", a job whose posted_at is a non-empty string
\* that is no ISO-8601 date counts as maximally old, so it comes after every
\* job of known age, and the sort does not fail.
C8_UnparseableDatesSortLast ==
    widgets.sort_by = "Recent" =>
        /\ run.status # "sort_raised"
        /\ \A i, k \in 1..Len(run.shown) :
               /\ run.shown[i].posted_at.fmt = "text"
               /\ days_ago(run.shown[k].posted_at, clock) # <<>>
               => k < i

\* C9: session_state.last_jobs is the empty list until a scan returns, and
\* from then on the filtered result of the latest run_scan that returned; a
\* run of the script with no button pressed shows last_jobs and calls no
\* fetcher.  (A step that changes the clock is the passing of time, every
\* other step is a run of the script.)
C9_Step ==
    LET before == IF "last_jobs" \in DOMAIN session THEN session.last_jobs ELSE <<>>
    IN  IF clock' # clock THEN session' = session
        ELSE /\ "last_jobs" \in DOMAIN session'
             /\ IF run'.button # "none" /\ run'.status # "scan_raised"
                THEN session'.last_jobs = run'.jobs
                ELSE session'.last_jobs = before
             /\ run'.button = "none" =>
                    /\ run'.jobs = before
                    /\ run'.trace = <<>>
                    /\ cache' = cache

C9_LastJobsIsLatestScanResult == [][C9_Step]_vars

C9_Witness ==
    /\ run.button = "none"
    /\ run.status = "ok"
    /\ widgets.sort_by = "Title"
    /\ Len(session.last_jobs) = 2
    /\ run.jobs = session.last_jobs

\* C10: parse_board_url gives Lever or Greenhouse only with a non-empty
\* slug, so run_scan never calls fetch_lever or fetch_greenhouse with an
\* empty slug.
C10_NoFetchWithEmptySlug ==
    ScanRan =>
        /\ \A i \in 1..Len(widgets.board_urls) :
               parse_board_url(widgets.board_urls[i]).src \in {"Lever", "Greenhouse"}
                   => parse_board_url(widgets.board_urls[i]).slug # EmptyStr
        /\ \A i \in 1..Len(run.trace) :
               run.trace[i].called /\ run.trace[i].src \in {"Lever", "Greenhouse"}
                   => run.trace[i].slug # EmptyStr

====
